---- MODULE Spec2Model ----
(***************************************************************************)
(* Model of controllers/kogitoruntime_controller.go: the Reconcile pass of *)
(* KogitoRuntimeReconciler (fetch, setupRBAC, protobuf mount, Deploy), and *)
(* the watches registered by SetupWithManager (the predicate on the        *)
(* KogitoRuntime watch, the owned-object watches, the KogitoInfra watch).  *)
(***************************************************************************)
EXTENDS Integers, Sequences, FiniteSets, TLC

\* Largest "small" duration the deployer returns (besides the 30 s hint).
MaxDur == 1

\* The delay the log message of Reconcile announces.
ThirtySeconds == 30

\* SetupWithManager completes the builder without controller options: one
\* worker, so one pass at a time.
MaxConcurrentReconciles == 1

Namespaces == {"ns1"}
Names == {"a", "b"}

\* ctrl.Request: the (name, namespace) key of a KogitoRuntime.
Keys == [Name : Names, Namespace : Namespaces]

NoErr == "nil"
Errors == {"Forbidden", "Timeout"}
AlreadyExists == "AlreadyExists"
Faults == {NoErr} \cup Errors

\* time.Duration values the deployer may hand back (signed).
Durations == (-1 .. MaxDur) \cup {ThirtySeconds}

QuarkusRuntimeType == "quarkus"
SpringBootRuntimeType == "springboot"
RuntimeTypes == {QuarkusRuntimeType, SpringBootRuntimeType}

TCPHealthCheckProbe == "TCPHealthCheckProbe"
QuarkusHealthCheckProbe == "QuarkusHealthCheckProbe"
NoProbe == "none"

\* metav1.Time pointer: nil, the zero time, or a real time.
NilTime == "nil"
ZeroTime == "zero"
SetTime == "t1"
Timestamps == {NilTime, ZeroTime, SetTime}

\* (*metav1.Time).IsZero: a nil pointer and the zero time are both zero.
IsZero(t) == t = NilTime \/ t = ZeroTime

\* A KogitoRuntime as stored in the cluster; NoObject stands for "not there"
\* and for the nil instance.
NoObject == [exists |-> FALSE, runtime |-> "", deletionTimestamp |-> NilTime]
RuntimeObjects ==
  [exists : {TRUE}, runtime : RuntimeTypes, deletionTimestamp : Timestamps]
LiveObjects == {o \in RuntimeObjects : o.deletionTimestamp = NilTime}

\* Runtime types a declaration may also carry: none, and one the operator
\* does not know.
OtherRuntimeTypes == {"", "vertx"}
DeclaredObjects ==
  [exists : {TRUE}, runtime : RuntimeTypes \cup OtherRuntimeTypes,
   deletionTimestamp : {NilTime}]

ZeroResult == [Requeue |-> FALSE, RequeueAfter |-> 0]

VARIABLES
  runtimes,   \* cluster: [Keys -> RuntimeObjects \cup {NoObject}]
  infra,      \* cluster: the KogitoInfra object, [exists, owners]
  rbac,       \* cluster: the service-viewer objects, a set of <<namespace, kind>>
  mounted,    \* cluster: keys whose protobuf config map is mounted on Data Index
  deployed,   \* cluster: [Keys -> runtime type the deployer last applied, or ""]
  queue,      \* the controller's work queue (a set: duplicates coalesce)
  lastEvent,  \* the last event seen on the KogitoRuntime / KogitoInfra watch
  pc,         \* [Keys -> position of the pass in flight for the key]
  instance,   \* [Keys -> what fetch returned to the pass]
  err,        \* [Keys -> the named result err of Reconcile]
  result,     \* [Keys -> the named result result of Reconcile]
  probe,      \* [Keys -> healthCheckProbeType of the pass]
  calls,      \* [Keys -> the collaborator calls of the pass, with what each returned]
  hist        \* [Keys -> how the last pass that returned ended, "none" once
              \*  the KogitoRuntime was changed since]

vars == <<runtimes, infra, rbac, mounted, deployed, queue, lastEvent,
          pc, instance, err, result, probe, calls, hist>>

cluster == <<runtimes, infra, rbac, mounted, deployed>>
passVars == <<pc, instance, err, result, probe, calls, hist>>


(***************************************************************************)
(* Collaborators of the pass.  Each takes the part of the cluster it works *)
(* on and the fault the API server answers with (NoErr: none).             *)
(***************************************************************************)

\* infrastructure.FetchKogitoRuntimeService: (instance, nil), (nil, nil) when
\* the object is not there, (nil, err) on an API error.
FetchKogitoRuntimeService(objs, key, fault) ==
  IF fault # NoErr
  THEN [instance |-> NoObject, err |-> fault]
  ELSE [instance |-> IF objs[key].exists THEN objs[key] ELSE NoObject,
        err |-> NoErr]

\* kubernetes.ResourceC(c).CreateIfNotExists: existence is success.
CreateIfNotExists(store, obj, fault) ==
  IF fault # NoErr
  THEN [store |-> store, err |-> fault]
  ELSE [store |-> store \cup {obj}, err |-> NoErr]

getServiceViewerRole(namespace) == <<namespace, "Role">>
getServiceViewerServiceAccount(namespace) == <<namespace, "ServiceAccount">>
getServiceViewerRoleBinding(namespace) == <<namespace, "RoleBinding">>

RBACObjects ==
  UNION {{getServiceViewerRole(n), getServiceViewerServiceAccount(n),
          getServiceViewerRoleBinding(n)} : n \in Namespaces}

\* infrastructure.MountProtoBufConfigMapOnDataIndex: idempotent, nothing
\* persisted on failure.
MountProtoBufConfigMapOnDataIndex(store, key, fault) ==
  IF fault # NoErr
  THEN [store |-> store, err |-> fault]
  ELSE [store |-> store \cup {key}, err |-> NoErr]

\* services.ServiceDeployer.Deploy: applies the desired state of the instance
\* and answers (requeueAfter, err); on an error the desired state may or may
\* not have been applied.
Deploy(store, key, inst, d, fault, applied) ==
  [store |-> IF fault = NoErr \/ applied
             THEN [store EXCEPT ![key] = inst.runtime]
             ELSE store,
   requeueAfter |-> d,
   err |-> fault]

(***************************************************************************)
(* Reconcile, one action per blocking call.                                *)
(***************************************************************************)

\* One collaborator call of a pass and what it returned.
Call(op, e) == [op |-> op, err |-> e, found |-> FALSE, pre |-> FALSE, d |-> 0]

IsRBACCall(c) == c.op \in {"Role", "ServiceAccount", "RoleBinding"}

\* The calls of a pass that setupRBAC ended with a failed create after an
\* earlier create of the same pass had created its object.
PartialBootstrap(cs) ==
  /\ cs # <<>>
  /\ IsRBACCall(cs[Len(cs)])
  /\ cs[Len(cs)].err # NoErr
  /\ \E i \in 1 .. Len(cs) - 1 : IsRBACCall(cs[i]) /\ ~cs[i].pre

\* History: how the pass that returns now ended ("partial": failed with a
\* partial bootstrap), provided the KogitoRuntime the pass worked on is
\* still the one in the cluster.
Returned(k, e, inst) ==
  [hist EXCEPT ![k] = IF inst # NoObject /\ inst # runtimes[k] THEN "none"
                      ELSE IF e = NoErr /\ inst = runtimes[k] THEN "ok"
                      ELSE IF e # NoErr /\ PartialBootstrap(calls'[k])
                        THEN "partial"
                      ELSE IF e # NoErr THEN "failed"
                      ELSE "none"]

\* A worker takes a key off the queue and calls Reconcile(req); the named
\* results start as their zero values.  No two passes run for one key.
Dispatch(k) ==
  /\ k \in queue
  /\ pc[k] = "idle"
  /\ queue' = queue \ {k}
  /\ pc' = [pc EXCEPT ![k] = "fetch"]
  /\ UNCHANGED <<cluster, lastEvent, instance, err, result, probe, calls,
                 hist>>

\* The controller as SetupWithManager builds it: a pass starts when one of
\* its MaxConcurrentReconciles workers is free.
StartPass(k) ==
  /\ Cardinality({j \in Keys : pc[j] # "idle"}) < MaxConcurrentReconciles
  /\ Dispatch(k)

\* Variant of AfterFetch without the instance == nil check.
AfterFetch_NoNilCheck(r) == IF r.err # NoErr THEN "done" ELSE "role"

\* Lines 63-69: where the pass goes after the fetch.
AfterFetch(r) ==
  IF r.err # NoErr THEN "done"
  ELSE IF r.instance = NoObject THEN "done"
  ELSE "role"

Fetch(k) ==
  /\ pc[k] = "fetch"
  /\ \E fault \in Faults :
       LET r == FetchKogitoRuntimeService(runtimes, k, fault)
           next == AfterFetch(r)
       IN /\ calls' = [calls EXCEPT ![k] =
                         Append(@, [Call("Fetch", r.err) EXCEPT
                                      !.found = r.instance.exists])]
          /\ instance' = [instance EXCEPT ![k] = r.instance]
          /\ err' = [err EXCEPT ![k] = r.err]
          /\ pc' = [pc EXCEPT ![k] = next]
          /\ hist' = IF next = "done"
                     THEN Returned(k, r.err, r.instance)
                     ELSE hist
  /\ UNCHANGED <<cluster, queue, lastEvent, result, probe>>

\* One CreateIfNotExists of setupRBAC: r is what the call returned.
RBACStep(k, op, obj, r, next) ==
  /\ rbac' = r.store
  /\ calls' = [calls EXCEPT ![k] =
                 Append(@, [Call(op, r.err) EXCEPT !.pre = (obj \in rbac)])]
  /\ err' = [err EXCEPT ![k] = r.err]
  /\ pc' = [pc EXCEPT ![k] = next]
  /\ hist' = IF next = "done"
              THEN Returned(k, r.err, instance[k])
              ELSE hist
  /\ UNCHANGED <<runtimes, infra, mounted, deployed, queue, lastEvent,
                 instance, result, probe>>

\* Variant of createRole that calls a plain Create: an existing object is
\* an already-exists error.
createRole_PlainCreate(store, namespace, fault) ==
  IF fault # NoErr THEN [store |-> store, err |-> fault]
  ELSE IF getServiceViewerRole(namespace) \in store
       THEN [store |-> store, err |-> AlreadyExists]
       ELSE [store |-> store \cup {getServiceViewerRole(namespace)},
             err |-> NoErr]

\* Line 135: the call that creates the service viewer role.
createRole(store, namespace, fault) ==
  CreateIfNotExists(store, getServiceViewerRole(namespace), fault)

\* Variant of createServiceAccount that replaces the object: it deletes the
\* one that is there and creates it anew.
createServiceAccount_Replace(store, namespace, fault) ==
  IF fault # NoErr
  THEN [store |-> store \ {getServiceViewerServiceAccount(namespace)},
        err |-> fault]
  ELSE [store |-> store \cup {getServiceViewerServiceAccount(namespace)},
        err |-> NoErr]

\* Line 141.
createServiceAccount(store, namespace, fault) ==
  CreateIfNotExists(store, getServiceViewerServiceAccount(namespace), fault)

\* Variant of createRoleBinding that calls a plain Create.
createRoleBinding_PlainCreate(store, namespace, fault) ==
  IF fault # NoErr THEN [store |-> store, err |-> fault]
  ELSE IF getServiceViewerRoleBinding(namespace) \in store
       THEN [store |-> store, err |-> AlreadyExists]
       ELSE [store |-> store \cup {getServiceViewerRoleBinding(namespace)},
             err |-> NoErr]

\* Line 147.
createRoleBinding(store, namespace, fault) ==
  CreateIfNotExists(store, getServiceViewerRoleBinding(namespace), fault)

\* Variant of AfterRole that leaves setupRBAC after the role create.
AfterRole_SkipRest(e) == IF e # NoErr THEN "done" ELSE "mount"

\* Lines 135-138: after the role create.
AfterRole(e) == IF e # NoErr THEN "done" ELSE "sa"

\* Variant of AfterServiceAccount that goes on after a failed create.
AfterServiceAccount_Continue(e) == "rb"

\* Lines 141-144: after the service account create.
AfterServiceAccount(e) == IF e # NoErr THEN "done" ELSE "rb"

\* Lines 147-151 and 71-73: after the role binding create setupRBAC returns.
AfterRoleBinding(e) == IF e # NoErr THEN "done" ELSE "mount"

SetupRBACRole(k) ==
  /\ pc[k] = "role"
  /\ \E fault \in Faults :
       LET r == createRole(rbac, k.Namespace, fault)
       IN RBACStep(k, "Role", getServiceViewerRole(k.Namespace), r,
                   AfterRole(r.err))

SetupRBACServiceAccount(k) ==
  /\ pc[k] = "sa"
  /\ \E fault \in Faults :
       LET r == createServiceAccount(rbac, k.Namespace, fault)
       IN RBACStep(k, "ServiceAccount",
                   getServiceViewerServiceAccount(k.Namespace), r,
                   AfterServiceAccount(r.err))

SetupRBACRoleBinding(k) ==
  /\ pc[k] = "rb"
  /\ \E fault \in Faults :
       LET r == createRoleBinding(rbac, k.Namespace, fault)
       IN RBACStep(k, "RoleBinding",
                   getServiceViewerRoleBinding(k.Namespace), r,
                   AfterRoleBinding(r.err))

\* Variant of AfterMount that logs the error and goes on.
AfterMount_LogOnly(e) == "deploy"

\* Lines 75-78: after the mount.
AfterMount(e) == IF e # NoErr THEN "done" ELSE "deploy"

Mount(k) ==
  /\ pc[k] = "mount"
  /\ \E fault \in Faults :
       LET r == MountProtoBufConfigMapOnDataIndex(mounted, k, fault)
           next == AfterMount(r.err)
       IN /\ mounted' = r.store
          /\ calls' = [calls EXCEPT ![k] = Append(@, Call("Mount", r.err))]
          /\ err' = [err EXCEPT ![k] = r.err]
          /\ pc' = [pc EXCEPT ![k] = next]
          /\ hist' = IF next = "done"
              THEN Returned(k, r.err, instance[k])
              ELSE hist
  /\ UNCHANGED <<runtimes, infra, rbac, deployed, queue, lastEvent,
                 instance, result, probe>>

\* instance.GetSpec().GetRuntime(): the runtime type as declared.
GetRuntime(inst) == inst.runtime

\* Variant of HealthCheckProbe that keeps the TCP probe for Spring Boot only.
HealthCheckProbe_TCPForSpringBoot(inst) ==
  IF GetRuntime(inst) = SpringBootRuntimeType
  THEN TCPHealthCheckProbe
  ELSE QuarkusHealthCheckProbe

\* Lines 80-83.
HealthCheckProbe(inst) ==
  IF GetRuntime(inst) = QuarkusRuntimeType
  THEN QuarkusHealthCheckProbe
  ELSE TCPHealthCheckProbe

\* Variant of ReconcileResult that sets the requeue without looking at err.
ReconcileResult_RequeueBeforeErrCheck(requeueAfter, e) ==
  IF requeueAfter > 0
  THEN [Requeue |-> TRUE, RequeueAfter |-> requeueAfter]
  ELSE ZeroResult

\* Variant of ReconcileResult that requeues after the 30 seconds of the log
\* message.
ReconcileResult_FixedDelay(requeueAfter, e) ==
  IF e # NoErr THEN ZeroResult
  ELSE IF requeueAfter > 0
       THEN [Requeue |-> TRUE, RequeueAfter |-> ThirtySeconds]
       ELSE ZeroResult

\* Variant of ReconcileResult that requeues on every duration from 0 up.
ReconcileResult_RequeueOnZero(requeueAfter, e) ==
  IF e # NoErr THEN ZeroResult
  ELSE IF requeueAfter >= 0
       THEN [Requeue |-> TRUE, RequeueAfter |-> requeueAfter]
       ELSE ZeroResult

\* Variant of ReconcileResult that asks for a requeue after every pass
\* without an error (a periodic resync).
ReconcileResult_AlwaysRequeue(requeueAfter, e) ==
  IF e # NoErr THEN ZeroResult
  ELSE [Requeue |-> TRUE,
        RequeueAfter |-> IF requeueAfter > 0 THEN requeueAfter ELSE ThirtySeconds]

\* Lines 95-103: the result of the pass from what Deploy returned.
ReconcileResult(requeueAfter, e) ==
  IF e # NoErr THEN ZeroResult
  ELSE IF requeueAfter > 0
       THEN [Requeue |-> TRUE, RequeueAfter |-> requeueAfter]
       ELSE ZeroResult

DeployStep(k) ==
  /\ pc[k] = "deploy"
  /\ \E fault \in Faults, d \in Durations, applied \in BOOLEAN :
       LET r == Deploy(deployed, k, instance[k], d, fault, applied)
       IN /\ deployed' = r.store
          /\ probe' = [probe EXCEPT ![k] = HealthCheckProbe(instance[k])]
          /\ calls' = [calls EXCEPT ![k] =
                         Append(@, [Call("Deploy", r.err) EXCEPT
                                      !.d = r.requeueAfter])]
          /\ err' = [err EXCEPT ![k] = r.err]
          /\ result' = [result EXCEPT ![k] =
                          ReconcileResult(r.requeueAfter, r.err)]
          /\ pc' = [pc EXCEPT ![k] = "done"]
          /\ hist' = Returned(k, r.err, instance[k])
  /\ UNCHANGED <<runtimes, infra, rbac, mounted, queue, lastEvent,
                 instance>>

\* The controller takes the results of Reconcile: an error or a requeue
\* request puts the key back on the queue.
FinishPass(k) ==
  /\ pc[k] = "done"
  /\ queue' = IF err[k] # NoErr \/ result[k].Requeue
                 \/ result[k].RequeueAfter > 0
              THEN queue \cup {k}
              ELSE queue
  /\ pc' = [pc EXCEPT ![k] = "idle"]
  /\ instance' = [instance EXCEPT ![k] = NoObject]
  /\ err' = [err EXCEPT ![k] = NoErr]
  /\ result' = [result EXCEPT ![k] = ZeroResult]
  /\ probe' = [probe EXCEPT ![k] = NoProbe]
  /\ calls' = [calls EXCEPT ![k] = <<>>]
  /\ UNCHANGED <<cluster, lastEvent, hist>>

(***************************************************************************)
(* The environment of the passes.                                          *)
(***************************************************************************)

\* The user creates, changes or removes the KogitoRuntime k.
ExternalChange(k, obj) ==
  /\ obj # runtimes[k]
  /\ runtimes' = [runtimes EXCEPT ![k] = obj]
  /\ hist' = [hist EXCEPT ![k] = "none"]
  /\ UNCHANGED <<infra, rbac, mounted, deployed, queue, lastEvent,
                 pc, instance, err, result, probe, calls>>

(***************************************************************************)
(* SetupWithManager: the watches, the predicate and the handlers.          *)
(***************************************************************************)

NoEvent ==
  [src |-> "none", type |-> "none", key |-> "none",
   old |-> "none", new |-> "none", enqueued |-> {}]

\* Variant of predDeleteFunc that admits delete events.
predDeleteFunc_Admit(e) == TRUE

\* Lines 112-114.
predDeleteFunc(e) == FALSE

\* Variant of predUpdateFunc that looks at the old object.
predUpdateFunc_OldObject(e) == IsZero(e.MetaOld.deletionTimestamp)

\* Lines 115-117.
predUpdateFunc(e) == IsZero(e.MetaNew.deletionTimestamp)

\* Variant of predCreateFunc with the filter of the update events.
predCreateFunc_LiveOnly(e) == IsZero(e.MetaNew.deletionTimestamp)

\* predicate.Funcs with no CreateFunc set (lines 110-118): creates pass.
predCreateFunc(e) == TRUE

\* For(&KogitoRuntime{}, WithPredicates(pred)), line 120: an admitted event
\* enqueues the key of its object.
RuntimeWatch(type, k, e) ==
  LET admitted == CASE type = "Create" -> predCreateFunc(e)
                    [] type = "Update" -> predUpdateFunc(e)
                    [] type = "Delete" -> predDeleteFunc(e)
  IN IF admitted THEN {k} ELSE {}

\* An event of the KogitoRuntime watch: the cluster holds obj afterwards.
RuntimeEvent(type, k, old, new, obj) ==
  LET enq == RuntimeWatch(type, k, [MetaOld |-> old, MetaNew |-> new])
  IN /\ runtimes' = [runtimes EXCEPT ![k] = obj]
     /\ queue' = queue \cup enq
     /\ lastEvent' = [src |-> "KogitoRuntime", type |-> type, key |-> k,
                      old |-> old, new |-> new, enqueued |-> enq]
     /\ hist' = [hist EXCEPT ![k] = "none"]
     /\ UNCHANGED <<infra, rbac, mounted, deployed,
                    pc, instance, err, result, probe, calls>>

\* The watch sees a KogitoRuntime for the first time: a new object (it
\* carries no deletion timestamp), or an object that was there when the
\* watch started, which may be in deletion already.
RuntimeCreateEvent(k, obj) ==
  /\ ~runtimes[k].exists
  /\ RuntimeEvent("Create", k, obj, obj, obj)

\* A KogitoRuntime is updated (a deletion timestamp, once set, stays set).
RuntimeUpdateEvent(k, new) ==
  /\ runtimes[k].exists
  /\ IsZero(new.deletionTimestamp) => IsZero(runtimes[k].deletionTimestamp)
  /\ RuntimeEvent("Update", k, runtimes[k], new, new)

\* A KogitoRuntime is removed from the cluster.
RuntimeDeleteEvent(k) ==
  /\ runtimes[k].exists
  /\ RuntimeEvent("Delete", k, runtimes[k], runtimes[k], NoObject)

\* Line 121, Owns(...): an event on a Service, Deployment or ConfigMap that
\* k controls enqueues k; no predicate is attached to these watches.
OwnedEvent(k) ==
  /\ queue' = queue \cup {k}
  /\ UNCHANGED <<cluster, lastEvent, passVars>>

KogitoRuntimeGroupKind == [group |-> "app.kiegroup.org", kind |-> "KogitoRuntime"]

\* The owner references a KogitoInfra may carry (at most one controller).
OwnerRefs ==
  {[group |-> "app.kiegroup.org", kind |-> "KogitoRuntime", name |-> "a",
    controller |-> FALSE],
   [group |-> "app.kiegroup.org", kind |-> "KogitoRuntime", name |-> "b",
    controller |-> TRUE],
   [group |-> "apps", kind |-> "Deployment", name |-> "a",
    controller |-> FALSE]}

NoInfra == [exists |-> FALSE, namespace |-> "ns1", owners |-> {}]

\* handler.EnqueueRequestForOwner.getOwnerReconcileRequest: one request per
\* owner reference of the owner type, in the namespace of the object.
getOwnerReconcileRequest(isController, ownerType, obj) ==
  {[Name |-> r.name, Namespace |-> obj.namespace] :
     r \in {o \in obj.owners :
              /\ isController => o.controller
              /\ o.kind = ownerType.kind
              /\ o.group = ownerType.group}}

\* handler.EnqueueRequestForOwner: Create and Delete map the object of the
\* event, Update maps the old and the new object.
EnqueueRequestForOwner(isController, ownerType, type, old, new) ==
  CASE type = "Create" -> getOwnerReconcileRequest(isController, ownerType, new)
    [] type = "Delete" -> getOwnerReconcileRequest(isController, ownerType, old)
    [] type = "Update" ->
         getOwnerReconcileRequest(isController, ownerType, old)
           \cup getOwnerReconcileRequest(isController, ownerType, new)

\* Variant of infraHandler with IsController: true.
infraHandler_ControllerOnly(type, old, new) ==
  EnqueueRequestForOwner(TRUE, KogitoRuntimeGroupKind, type, old, new)

\* Line 123.
infraHandler(type, old, new) ==
  EnqueueRequestForOwner(FALSE, KogitoRuntimeGroupKind, type, old, new)

\* Variant of InfraWatch with pred attached to the KogitoInfra watch.
InfraWatch_WithPredicates(type, old, new) ==
  IF type = "Delete" /\ ~predDeleteFunc([MetaOld |-> old, MetaNew |-> new])
  THEN {}
  ELSE infraHandler(type, old, new)

\* Line 124, Watches(KogitoInfra, infraHandler): every event goes to the
\* handler, no predicate is attached.
InfraWatch(type, old, new) == infraHandler(type, old, new)

\* An event of the KogitoInfra watch: the cluster holds obj afterwards.
InfraEvent(type, old, new, obj) ==
  LET enq == InfraWatch(type, old, new)
  IN /\ infra' = obj
     /\ queue' = queue \cup enq
     /\ lastEvent' = [src |-> "KogitoInfra", type |-> type, key |-> "none",
                      old |-> old, new |-> new, enqueued |-> enq]
     /\ UNCHANGED <<runtimes, rbac, mounted, deployed, passVars>>

InfraCreateEvent(owners) ==
  /\ ~infra.exists
  /\ LET obj == [exists |-> TRUE, namespace |-> "ns1", owners |-> owners]
     IN InfraEvent("Create", obj, obj, obj)

InfraUpdateEvent(owners) ==
  /\ infra.exists
  /\ LET obj == [infra EXCEPT !.owners = owners]
     IN InfraEvent("Update", infra, obj, obj)

InfraDeleteEvent ==
  /\ infra.exists
  /\ InfraEvent("Delete", infra, infra, NoInfra)

Init ==
  /\ runtimes = [k \in Keys |-> NoObject]
  /\ infra = NoInfra
  /\ rbac \in SUBSET RBACObjects
  /\ mounted = {}
  /\ deployed = [k \in Keys |-> ""]
  /\ queue = {}
  /\ lastEvent = NoEvent
  /\ pc = [k \in Keys |-> "idle"]
  /\ instance = [k \in Keys |-> NoObject]
  /\ err = [k \in Keys |-> NoErr]
  /\ result = [k \in Keys |-> ZeroResult]
  /\ probe = [k \in Keys |-> NoProbe]
  /\ calls = [k \in Keys |-> <<>>]
  /\ hist = [k \in Keys |-> "none"]

Next ==
  \E k \in Keys :
    \/ StartPass(k)
    \/ Fetch(k)
    \/ SetupRBACRole(k)
    \/ SetupRBACServiceAccount(k)
    \/ SetupRBACRoleBinding(k)
    \/ Mount(k)
    \/ DeployStep(k)
    \/ FinishPass(k)
    \/ OwnedEvent(k)
    \/ \E obj \in LiveObjects \cup {NoObject} : ExternalChange(k, obj)

Spec == Init /\ [][Next]_vars

\* The watches alone: events, the queue, and the dispatch of a pass.
InitEvents == Init /\ rbac = {}

NextEvents ==
  \/ \E k \in Keys :
       \/ \E obj \in RuntimeObjects : RuntimeCreateEvent(k, obj)
       \/ \E new \in RuntimeObjects : RuntimeUpdateEvent(k, new)
       \/ RuntimeDeleteEvent(k)
       \/ OwnedEvent(k)
       \/ StartPass(k)
  \/ \E owners \in SUBSET OwnerRefs :
       \/ InfraCreateEvent(owners)
       \/ InfraUpdateEvent(owners)
  \/ InfraDeleteEvent

SpecEvents == InitEvents /\ [][NextEvents]_vars

\* The passes alone, for declarations of every runtime type.
InitProbe ==
  /\ runtimes \in [Keys -> DeclaredObjects]
  /\ infra = NoInfra
  /\ rbac = {}
  /\ mounted = {}
  /\ deployed = [k \in Keys |-> ""]
  /\ queue = Keys
  /\ lastEvent = NoEvent
  /\ pc = [k \in Keys |-> "idle"]
  /\ instance = [k \in Keys |-> NoObject]
  /\ err = [k \in Keys |-> NoErr]
  /\ result = [k \in Keys |-> ZeroResult]
  /\ probe = [k \in Keys |-> NoProbe]
  /\ calls = [k \in Keys |-> <<>>]
  /\ hist = [k \in Keys |-> "none"]

NextProbe ==
  \E k \in Keys :
    \/ StartPass(k)
    \/ Fetch(k)
    \/ SetupRBACRole(k)
    \/ SetupRBACServiceAccount(k)
    \/ SetupRBACRoleBinding(k)
    \/ Mount(k)
    \/ DeployStep(k)
    \/ FinishPass(k)

SpecProbe == InitProbe /\ [][NextProbe]_vars

\* Passes for different keys of one namespace on several workers (more
\* than one controller process, or MaxConcurrentReconciles raised), their
\* steps interleaved; no RBAC object exists at the start.
InitConcurrent ==
  /\ InitProbe
  /\ \A k \in Keys : runtimes[k].runtime = QuarkusRuntimeType

NextConcurrent ==
  \E k \in Keys :
    \/ Dispatch(k)
    \/ Fetch(k)
    \/ SetupRBACRole(k)
    \/ SetupRBACServiceAccount(k)
    \/ SetupRBACRoleBinding(k)
    \/ Mount(k)
    \/ DeployStep(k)
    \/ FinishPass(k)
    \/ OwnedEvent(k)

SpecConcurrent == InitConcurrent /\ [][NextConcurrent]_vars

\* The passes under a fair scheduler, with no event after the first
\* requests.  The controller runs a queued request and takes the result of
\* a pass (StartPass, FinishPass); a blocking call returns, and it does not
\* fail for ever; Deploy returns the duration 0 in the end.
FairPasses ==
  /\ SF_vars(\E k \in Keys : StartPass(k))
  /\ WF_vars(\E k \in Keys : FinishPass(k))
  /\ SF_vars(\E k \in Keys : Fetch(k) /\ err'[k] = NoErr)
  /\ SF_vars(\E k \in Keys : SetupRBACRole(k) /\ err'[k] = NoErr)
  /\ SF_vars(\E k \in Keys : SetupRBACServiceAccount(k) /\ err'[k] = NoErr)
  /\ SF_vars(\E k \in Keys : SetupRBACRoleBinding(k) /\ err'[k] = NoErr)
  /\ SF_vars(\E k \in Keys : Mount(k) /\ err'[k] = NoErr)
  /\ SF_vars(\E k \in Keys : /\ DeployStep(k)
                              /\ err'[k] = NoErr
                              /\ calls'[k][Len(calls'[k])].d = 0)

SpecLive == InitConcurrent /\ [][NextProbe]_vars /\ FairPasses


(***************************************************************************)
(* Properties.                                                             *)
(***************************************************************************)

Last(seq) == seq[Len(seq)]

\* The order of the collaborator calls of a full pass.
PassOrder ==
  <<"Fetch", "Role", "ServiceAccount", "RoleBinding", "Mount", "Deploy">>

\* The pass of k made a collaborator call in this step.
MadeCall(k) == calls'[k] # calls[k] /\ calls'[k] # <<>>

\* The fetch of the pass returned no instance and no error.
FetchedAbsent(cs) ==
  cs # <<>> /\ cs[1].op = "Fetch" /\ cs[1].err = NoErr /\ ~cs[1].found

\* C1. Absence short-circuit: when the fetch of a pass returns no instance
\* and no error, the fetch is the only call the pass makes (no RBAC create,
\* no mount, no Deploy), the cluster is left as it was, and the pass returns
\* a nil error with Requeue = false and RequeueAfter = 0.
AbsenceShortCircuit ==
  [][\A k \in Keys :
       (MadeCall(k) /\ FetchedAbsent(calls'[k])) =>
         /\ Len(calls'[k]) = 1
         /\ pc'[k] = "done"
         /\ err'[k] = NoErr
         /\ result'[k] = ZeroResult
         /\ cluster' = cluster]_vars

AbsenceWitness ==
  \E k \in Keys : pc[k] = "done" /\ FetchedAbsent(calls[k])

\* C2. Requeue semantics: when the pass reaches Deploy and Deploy returns a
\* duration d > 0 and no error, the pass returns a nil error and a result
\* with Requeue = true and RequeueAfter = d, the duration unchanged.
RequeueSemantics ==
  \A k \in Keys :
    (/\ pc[k] = "done"
     /\ calls[k] # <<>>
     /\ Last(calls[k]).op = "Deploy"
     /\ Last(calls[k]).err = NoErr
     /\ Last(calls[k]).d > 0) =>
      /\ err[k] = NoErr
      /\ result[k] = [Requeue |-> TRUE, RequeueAfter |-> Last(calls[k]).d]

RequeueWitness ==
  \E k \in Keys :
    /\ pc[k] = "done"
    /\ calls[k] # <<>>
    /\ Last(calls[k]).op = "Deploy"
    /\ Last(calls[k]).err = NoErr
    /\ Last(calls[k]).d > 0
    /\ Last(calls[k]).d # ThirtySeconds
    /\ result[k].Requeue

\* C3. Error propagation without requeue: when a step of the pass (fetch, an
\* RBAC create, the mount, Deploy) returns an error, the pass returns that
\* error with Requeue = false and RequeueAfter = 0, also when Deploy returns
\* a positive duration with the error; a pass that returns an error got it
\* from one of its steps and schedules no requeue.
ErrorPropagation ==
  \A k \in Keys :
    pc[k] = "done" =>
      /\ \A i \in DOMAIN calls[k] :
           calls[k][i].err # NoErr =>
             err[k] = calls[k][i].err /\ result[k] = ZeroResult
      /\ err[k] # NoErr =>
           /\ result[k] = ZeroResult
           /\ \E i \in DOMAIN calls[k] : calls[k][i].err = err[k]

ErrorWithDurationWitness ==
  \E k \in Keys :
    /\ pc[k] = "done"
    /\ calls[k] # <<>>
    /\ Last(calls[k]).op = "Deploy"
    /\ Last(calls[k]).err \in Errors
    /\ Last(calls[k]).d > 0
    /\ err[k] = Last(calls[k]).err

\* C4. Step ordering and fail-fast: the calls of a pass are a prefix of
\* fetch, role, service account, role binding, mount, Deploy, each made at
\* most once, and a call is made only if every earlier call of the pass
\* returned no error and the fetch returned an instance.
StepOrdering ==
  \A k \in Keys :
    LET n == Len(calls[k])
    IN /\ n <= Len(PassOrder)
       /\ \A i \in 1 .. n : calls[k][i].op = PassOrder[i]
       /\ \A i \in 1 .. n - 1 : calls[k][i].err = NoErr
       /\ n > 1 => calls[k][1].found

MountFailedWitness ==
  \E k \in Keys :
    /\ pc[k] = "done"
    /\ Len(calls[k]) = 5
    /\ Last(calls[k]).op = "Mount"
    /\ Last(calls[k]).err \in Errors

BootstrapDone(k) ==
  \/ pc[k] \in {"mount", "deploy"}
  \/ \E i \in DOMAIN calls[k] : calls[k][i].op \in {"Mount", "Deploy"}

\* C6. Bootstrap ordering: in a pass whose setupRBAC returned without a
\* failed create, the role, service account and role binding creates were
\* each called exactly once, in that order, whichever of the objects existed
\* before; the role binding create is called only after the role and the
\* service account creates have returned without error.
BootstrapOrdering ==
  \A k \in Keys :
    LET rb == SelectSeq(calls[k], IsRBACCall)
    IN /\ BootstrapDone(k) =>
            /\ Len(rb) = 3
            /\ rb[1].op = "Role" /\ rb[1].err = NoErr
            /\ rb[2].op = "ServiceAccount" /\ rb[2].err = NoErr
            /\ rb[3].op = "RoleBinding" /\ rb[3].err = NoErr
       /\ \A i \in DOMAIN calls[k] :
            calls[k][i].op = "RoleBinding" =>
              /\ \E j \in 1 .. i - 1 :
                   calls[k][j].op = "Role" /\ calls[k][j].err = NoErr
              /\ \E j \in 1 .. i - 1 :
                   calls[k][j].op = "ServiceAccount" /\ calls[k][j].err = NoErr

BootstrapWitness ==
  \E k \in Keys :
    /\ pc[k] = "mount"
    /\ calls[k][2].pre
    /\ ~calls[k][3].pre
    /\ calls[k][4].pre

\* C7. Delete-event suppression: a delete event of a KogitoRuntime is
\* rejected by the predicate and enqueues no request.
DeleteSuppressed ==
  (lastEvent.src = "KogitoRuntime" /\ lastEvent.type = "Delete") =>
    lastEvent.enqueued = {}

DeleteWitness ==
  /\ lastEvent.src = "KogitoRuntime"
  /\ lastEvent.type = "Delete"
  /\ lastEvent.key \notin queue
  /\ ~runtimes[lastEvent.key].exists

\* C8. Terminating-object suppression: an update event of a KogitoRuntime
\* enqueues a request for its key if and only if the deletion timestamp of
\* the new object is zero or unset, whatever the old object is.
UpdateTriggerIffLive ==
  (lastEvent.src = "KogitoRuntime" /\ lastEvent.type = "Update") =>
    lastEvent.enqueued =
      IF IsZero(lastEvent.new.deletionTimestamp)
      THEN {lastEvent.key}
      ELSE {}

TerminatingUpdateWitness ==
  /\ lastEvent.src = "KogitoRuntime"
  /\ lastEvent.type = "Update"
  /\ IsZero(lastEvent.old.deletionTimestamp)
  /\ ~IsZero(lastEvent.new.deletionTimestamp)
  /\ lastEvent.enqueued = {}

\* C9. No pass for an object in deletion: no event triggers a Reconcile
\* pass (puts a request on the queue) for a KogitoRuntime whose deletion
\* timestamp is set, whatever events arrive on the KogitoRuntime, on the
\* objects it owns and on the KogitoInfra that names it as an owner.
NoTriggerForTerminating ==
  [][\A k \in Keys :
       (k \notin queue /\ k \in queue') =>
         IsZero(runtimes'[k].deletionTimestamp)]_vars

\* The keys of the KogitoRuntime owners named by the owner references of a
\* KogitoInfra object.
RuntimeOwnerKeys(obj) ==
  {[Name |-> r.name, Namespace |-> obj.namespace] :
     r \in {o \in obj.owners :
              o.kind = "KogitoRuntime" /\ o.group = "app.kiegroup.org"}}

\* C10 as stated. Owner fan-out: an event on a KogitoInfra enqueues exactly
\* the keys of the KogitoRuntime owners named in the owner references of the
\* object (as it is after the event; as it was, for a delete).
OwnerFanOutOfObject ==
  lastEvent.src = "KogitoInfra" =>
    lastEvent.enqueued =
      IF lastEvent.type = "Delete"
      THEN RuntimeOwnerKeys(lastEvent.old)
      ELSE RuntimeOwnerKeys(lastEvent.new)

\* C10 as amended. Owner fan-out: an event on a KogitoInfra enqueues exactly
\* the keys of the KogitoRuntime owners, controller or not, named in the
\* owner references of the objects the event carries: the object for a
\* create or a delete, the old and the new object for an update; owner
\* references to other types give no request.
OwnerFanOut ==
  lastEvent.src = "KogitoInfra" =>
    lastEvent.enqueued =
      CASE lastEvent.type = "Create" -> RuntimeOwnerKeys(lastEvent.new)
        [] lastEvent.type = "Delete" -> RuntimeOwnerKeys(lastEvent.old)
        [] lastEvent.type = "Update" ->
             RuntimeOwnerKeys(lastEvent.old) \cup RuntimeOwnerKeys(lastEvent.new)

OwnerFanOutWitness ==
  /\ lastEvent.src = "KogitoInfra"
  /\ lastEvent.type = "Update"
  /\ lastEvent.new.owners = OwnerRefs
  /\ lastEvent.old.owners = OwnerRefs
  /\ lastEvent.enqueued = Keys
  /\ queue = Keys

\* C11. Create events always pass: every create event of a KogitoRuntime
\* enqueues a request for its key, whatever the fields of the object are
\* (its runtime type, its deletion timestamp).
CreateAlwaysTriggers ==
  (lastEvent.src = "KogitoRuntime" /\ lastEvent.type = "Create") =>
    /\ lastEvent.enqueued = {lastEvent.key}
    /\ lastEvent.key \in queue \/ pc[lastEvent.key] # "idle"

CreateOfTerminatingWitness ==
  /\ lastEvent.src = "KogitoRuntime"
  /\ lastEvent.type = "Create"
  /\ lastEvent.new.deletionTimestamp = SetTime
  /\ lastEvent.new.runtime = SpringBootRuntimeType
  /\ lastEvent.key \in queue

\* C12. Fixed requeue interval: every requeue a pass schedules has a delay
\* of exactly 30 seconds, the delay the log message of the pass announces.
FixedRequeueInterval ==
  \A k \in Keys :
    (pc[k] = "done" /\ result[k].Requeue) =>
      result[k].RequeueAfter = ThirtySeconds

\* The pass of k called Deploy, which returned no error and the duration d.
DeployReturned(k, d) ==
  /\ calls[k] # <<>>
  /\ Last(calls[k]).op = "Deploy"
  /\ Last(calls[k]).err = NoErr
  /\ Last(calls[k]).d = d

\* C14. Requeue only on pending convergence: a pass returns Requeue = true
\* if and only if it reached Deploy and Deploy returned no error and a
\* duration greater than zero; when Deploy returns the duration 0 and no
\* error the pass returns a nil error, Requeue = false and RequeueAfter = 0.
RequeueOnlyWhenPending ==
  \A k \in Keys :
    pc[k] = "done" =>
      /\ result[k].Requeue <=> \E d \in Durations : d > 0 /\ DeployReturned(k, d)
      /\ DeployReturned(k, 0) => err[k] = NoErr /\ result[k] = ZeroResult

ConvergedWitness ==
  \E k \in Keys :
    /\ pc[k] = "done"
    /\ DeployReturned(k, 0)
    /\ result[k] = ZeroResult
    /\ deployed[k] = instance[k].runtime

\* C13. Variant selection: the health probe handed to the deployer depends
\* on the runtime type of the declaration alone: the Quarkus probe for the
\* Quarkus type, the TCP probe for every other type, the empty and the
\* unknown one included.
ProbeByRuntimeType ==
  \A k \in Keys :
    /\ probe[k] # NoProbe <=>
         (calls[k] # <<>> /\ Last(calls[k]).op = "Deploy")
    /\ probe[k] # NoProbe =>
         probe[k] = CASE instance[k].runtime = QuarkusRuntimeType ->
                           QuarkusHealthCheckProbe
                      [] OTHER -> TCPHealthCheckProbe

EmptyRuntimeTypeWitness ==
  \E k \in Keys :
    /\ pc[k] = "done"
    /\ instance[k].exists
    /\ instance[k].runtime = ""
    /\ probe[k] = TCPHealthCheckProbe

\* C18. Infra events bypass the event filter: every create, update and
\* delete event on a KogitoInfra enqueues a request for each KogitoRuntime
\* owner named by the object of the event, also when the event is a delete
\* and also for an owner whose deletion timestamp is set.
InfraBypassesFilter ==
  lastEvent.src = "KogitoInfra" =>
    /\ lastEvent.type \in {"Create", "Update", "Delete"}
    /\ \A k \in RuntimeOwnerKeys(IF lastEvent.type = "Delete"
                                  THEN lastEvent.old
                                  ELSE lastEvent.new) :
         /\ k \in lastEvent.enqueued
         /\ k \in queue \/ pc[k] # "idle"

InfraDeleteTerminatingOwnerWitness ==
  /\ lastEvent.src = "KogitoInfra"
  /\ lastEvent.type = "Delete"
  /\ \E k \in RuntimeOwnerKeys(lastEvent.old) :
       /\ runtimes[k].exists
       /\ runtimes[k].deletionTimestamp = SetTime
       /\ k \in lastEvent.enqueued
       /\ k \in queue

\* The three service-viewer objects of a namespace.
RBACTriple(namespace) ==
  {getServiceViewerRole(namespace), getServiceViewerServiceAccount(namespace),
   getServiceViewerRoleBinding(namespace)}

\* C15. Partial bootstrap then retry: after a failed RBAC create the pass
\* makes no further call (no later create, no mount, no Deploy); no step
\* removes an RBAC object, so what the earlier creates made stays; and a
\* later pass for the same key whose creates do not fail ends setupRBAC
\* with the role, the service account and the role binding present, its
\* creates of the objects that exist already returning no error.
PartialBootstrapThenRetry ==
  [][\A k \in Keys :
       /\ (\E i \in DOMAIN calls[k] :
             IsRBACCall(calls[k][i]) /\ calls[k][i].err # NoErr) =>
            ~MadeCall(k)
       /\ rbac \subseteq rbac'
       /\ (hist[k] = "partial" /\ BootstrapDone(k)') =>
            /\ RBACTriple(k.Namespace) \subseteq rbac'
            /\ \A i \in DOMAIN calls'[k] :
                 IsRBACCall(calls'[k][i]) => calls'[k][i].err = NoErr]_vars

RetryAfterPartialWitness ==
  \E k \in Keys :
    /\ hist[k] = "partial"
    /\ pc[k] = "mount"
    /\ calls[k][2].pre
    /\ ~calls[k][4].pre
    /\ RBACTriple(k.Namespace) \subseteq rbac

\* The object an RBAC create of a pass in the namespace is about.
RBACObjectOf(namespace, op) == <<namespace, op>>

\* C16. RBAC triple invariant: in a namespace the role, the service account
\* and the role binding each exist at most once, and an object the loop has
\* created is never removed, replaced or created again by a later step of
\* any pass: a create that finds its object leaves the RBAC objects as they
\* are, and a step adds at most the one object its create did not find.
\* This holds for any number of passes and any interleaving of the passes
\* for different keys of the namespace.
RBACTripleInvariant ==
  [][/\ rbac \subseteq rbac'
     /\ \A n \in Namespaces, kind \in {"Role", "ServiceAccount", "RoleBinding"} :
          Cardinality({o \in rbac' : o[1] = n /\ o[2] = kind}) <= 1
     /\ rbac' # rbac =>
          \E k \in Keys : MadeCall(k) /\ IsRBACCall(Last(calls'[k]))
     /\ \A k \in Keys :
          (MadeCall(k) /\ IsRBACCall(Last(calls'[k]))) =>
            LET c == Last(calls'[k])
            IN /\ c.pre => rbac' = rbac
               /\ rbac' # rbac =>
                    /\ c.err = NoErr
                    /\ rbac' \ rbac = {RBACObjectOf(k.Namespace, c.op)}]_vars

LaterPassBesideOtherKeyWitness ==
  \E k, j \in Keys :
    /\ k # j
    /\ hist[k] = "ok"
    /\ pc[k] = "mount"
    /\ calls[k][2].pre /\ calls[k][3].pre /\ calls[k][4].pre
    /\ pc[j] = "rb"
    /\ rbac = RBACTriple(k.Namespace)

QuietReturn(k) ==
  /\ pc[k] = "done"
  /\ err[k] = NoErr
  /\ ~result[k].Requeue
  /\ result[k].RequeueAfter = 0

\* C19. Eventual quiescence: when the scheduler runs a follow-up pass after
\* every pass that returned an error or Requeue = true, the instance
\* exists, no step fails for ever and Deploy returns the duration 0 in the
\* end, then for every key a pass returns in the end a nil error with
\* Requeue = false; the controller puts no request on the queue for such a
\* return, and with no new event no pass runs for the key any more.
EventualQuiescence ==
  /\ \A k \in Keys : <>QuietReturn(k)
  /\ \A k \in Keys : <>[](pc[k] = "idle" /\ k \notin queue)
  /\ [][\A k \in Keys :
         (QuietReturn(k) /\ pc'[k] = "idle") => k \notin queue']_vars

QuiescentAfterRetriesWitness ==
  /\ queue = {}
  /\ \A k \in Keys : pc[k] = "idle" /\ hist[k] = "ok"
  /\ \A k \in Keys : k \in mounted /\ deployed[k] = runtimes[k].runtime
  /\ rbac = RBACObjects

====
